---- MODULE Spec2Model ----
\* Model of oss_kamodo_installer.py: the settings loader, the five steps
\* (create_mamba_env, install_packages, install_kamodo_ccmc,
\* enable_jupyter_kernel, tear_down_env) and main, run as successive process
\* invocations that share the file system.
EXTENDS Integers, Sequences, FiniteSets, TLC

\* ------------------------------------------------------------------ bounds
\* Number of successive invocations of the script that are explored.
MaxRuns == 2
\* Number of command-line tokens after the program name.
MaxArgs == 2

\* ------------------------------------------------------- the environment
\* Executables the script names (lines 82, 126, 148, 200).
Tools == {"mamba", "conda", "git"}

\* Tokens that may appear on the command line after the program name.
Tokens == {"--clean", "--force"}

SeqsUpTo(S, n) == UNION {[1..k -> S] : k \in 0..n}

\* sys.argv: the program name followed by at most MaxArgs tokens.
ArgLists == {<<"oss_kamodo_installer.py">> \o s : s \in SeqsUpTo(Tokens, MaxArgs)}

EmptyDict == [k \in {} |-> ""]

\* Values a configuration document gives to its two keys (a string, a list of
\* strings): an empty and a non-empty name; an empty list, a single package,
\* and a list with a repeated entry.
EnvNames == {"", "sp_env"}
PkgLists == {<<>>, <<"numpy">>, <<"scipy", "numpy", "scipy">>}

\* The JSON objects: any subset of the two recognised keys.
JsonObjects ==
    {[k \in K |-> IF k = "env_name" THEN e ELSE p] :
        K \in SUBSET {"env_name", "packages"}, e \in EnvNames, p \in PkgLists}

\* What oss_kamodo_installer_settings.json can be when it is opened: absent,
\* unreadable, not JSON, a JSON value that is not an object, or an object.
ConfigFiles ==
    {[kind |-> k, value |-> EmptyDict] :
        k \in {"missing", "unreadable", "malformed", "array"}}
    \cup {[kind |-> "object", value |-> o] : o \in JsonObjects}

\* Exit statuses of a failed external command (1; 128 is git's fatal error).
FailCodes == {1, 128}

str(n) == CASE n = 0 -> "0" [] n = 1 -> "1" [] n = 128 -> "128" [] OTHER -> "?"

\* ------------------------------------------------------------ exceptions
\* Python's exception classes, each with the classes it is an instance of.
\* IOError is an alias of OSError.
Mro(cls) ==
    CASE cls = "FileNotFoundError"  -> {"FileNotFoundError", "OSError", "Exception"}
      [] cls = "PermissionError"    -> {"PermissionError", "OSError", "Exception"}
      [] cls = "OSError"            -> {"OSError", "Exception"}
      [] cls = "JSONDecodeError"    -> {"JSONDecodeError", "ValueError", "Exception"}
      [] cls = "CalledProcessError" -> {"CalledProcessError", "SubprocessError", "Exception"}
      [] cls = "AttributeError"     -> {"AttributeError", "Exception"}
      [] OTHER                      -> {cls}

Exc(cls) == [cls |-> cls, returncode |-> 0]
CalledProcessError(rc) == [cls |-> "CalledProcessError", returncode |-> rc]

\* create_mamba_env without its FileNotFoundError clause.
ExceptClauses_no_fnf(fn) ==
    CASE fn = "read_settings" ->
            <<"FileNotFoundError", "JSONDecodeError", "OSError">>
      [] fn = "create_mamba_env" ->
            <<"CalledProcessError", "OSError">>
      [] fn = "tear_down_env" ->
            <<"CalledProcessError", "FileNotFoundError">>
      [] OTHER ->
            <<"CalledProcessError", "FileNotFoundError", "PermissionError", "OSError">>

\* The except clauses of each function, in source order.
ExceptClauses(fn) ==
    CASE fn = "read_settings" ->
            <<"FileNotFoundError", "JSONDecodeError", "OSError">>
      [] fn = "create_mamba_env" ->
            <<"CalledProcessError", "FileNotFoundError", "OSError">>
      [] fn = "install_packages" ->
            <<"CalledProcessError", "FileNotFoundError", "OSError">>
      [] fn = "install_kamodo_ccmc" ->
            <<"CalledProcessError", "FileNotFoundError", "PermissionError", "OSError">>
      [] fn = "enable_jupyter_kernel" ->
            <<"CalledProcessError", "FileNotFoundError", "PermissionError", "OSError">>
      [] fn = "tear_down_env" ->
            <<"CalledProcessError", "FileNotFoundError">>
      [] OTHER -> <<>>

\* The first except clause of fn that matches the exception (the class it
\* names); "" when none does.
Catch(fn, exc) ==
    LET cl == ExceptClauses(fn)
        hits == {i \in 1..Len(cl) : cl[i] \in Mro(exc.cls)}
    IN  IF hits = {} THEN ""
        ELSE cl[CHOOSE i \in hits : \A j \in hits : i <= j]

\* ------------------------------------------------------------------- log
Info(msg, args) == [msg |-> msg, args |-> args, level |-> "INFO"]
Error(msg, args) == [msg |-> msg, args |-> args, level |-> "ERROR"]

\* The record an except clause of fn logs for exception exc.
\* str(e) of a CalledProcessError carries the exit status; str(e) of the
\* others is represented by the class name.
Handler(fn, clause, exc, env) ==
    LET rc == str(exc.returncode)
        e  == exc.cls
    IN
    CASE fn = "read_settings" /\ clause = "FileNotFoundError" ->
            Error("JSON file not found: %s", <<"oss_kamodo_installer_settings.json">>)
      [] fn = "read_settings" /\ clause = "JSONDecodeError" ->
            Error("Error decoding JSON file: %s", <<"oss_kamodo_installer_settings.json">>)
      [] fn = "read_settings" /\ clause = "OSError" ->
            Error("I/O error while reading JSON file: %s", <<e>>)
      [] fn = "create_mamba_env" /\ clause = "CalledProcessError" ->
            Error("Mamba command failed with exit code %s while creating Conda environment %s.",
                  <<rc, env>>)
      [] fn = "create_mamba_env" /\ clause = "FileNotFoundError" ->
            Error("Mamba is not installed or not found in PATH. Please install Mamba and try again.",
                  <<>>)
      [] fn = "create_mamba_env" /\ clause = "OSError" ->
            Error("An OS error occurred while creating Conda environment %s: %s", <<env, e>>)
      [] fn = "install_packages" /\ clause = "CalledProcessError" ->
            Error("Mamba command failed with exit code %s while installing packages in environment %s.",
                  <<rc, env>>)
      [] fn = "install_packages" /\ clause = "FileNotFoundError" ->
            Error("Mamba is not installed or not found in PATH. Please install Mamba and try again.",
                  <<>>)
      [] fn = "install_packages" /\ clause = "OSError" ->
            Error("An OS error occurred while installing packages in environment %s: %s",
                  <<env, e>>)
      [] fn = "install_kamodo_ccmc" /\ clause = "CalledProcessError" ->
            Error("Command failed with exit code %s: %s", <<rc, e>>)
      [] fn = "install_kamodo_ccmc" /\ clause = "FileNotFoundError" ->
            Error("Required executable not found: %s", <<e>>)
      [] fn = "install_kamodo_ccmc" /\ clause = "PermissionError" ->
            Error("Permission error occurred: %s", <<e>>)
      [] fn = "install_kamodo_ccmc" /\ clause = "OSError" ->
            Error("An OS error occurred: %s", <<e>>)
      [] fn = "enable_jupyter_kernel" /\ clause = "CalledProcessError" ->
            Error("Command failed with exit code %s while enabling Jupyter kernel for environment %s.",
                  <<rc, env>>)
      [] fn = "enable_jupyter_kernel" /\ clause = "FileNotFoundError" ->
            Error("Required executable not found. Ensure that Mamba, Conda, and Python are in PATH.",
                  <<>>)
      [] fn = "enable_jupyter_kernel" /\ clause = "PermissionError" ->
            Error("Permission error while enabling Jupyter kernel: %s", <<e>>)
      [] fn = "enable_jupyter_kernel" /\ clause = "OSError" ->
            Error("An OS error occurred while enabling Jupyter kernel: %s", <<e>>)
      [] fn = "tear_down_env" /\ clause = "CalledProcessError" ->
            Error("Failed to remove Conda environment '%s'. Process error: %s", <<env, rc>>)
      [] fn = "tear_down_env" /\ clause = "FileNotFoundError" ->
            Error("The 'conda' command was not found. Ensure Conda is installed and in PATH. Error: %s",
                  <<e>>)
      [] OTHER -> Error("", <<>>)

\* --------------------------------------------------------- read_settings
DefaultEnvName_empty == ""
DefaultEnvName == "Kamodo_env"
DefaultPackages ==
    <<"netCDF4", "cdflib", "astropy", "ipython",
      "jupyter", "h5py", "sgp4", "spacepy", "hapiclient">>

\* A default that replaces the value of the document.
setdefault_overwrite(d, k, v) ==
    [x \in DOMAIN d \cup {k} |-> IF x = k THEN v ELSE d[x]]

\* dict.setdefault: the value is stored only when the key is absent.
setdefault(d, k, v) ==
    IF k \in DOMAIN d THEN d
    ELSE [x \in DOMAIN d \cup {k} |-> IF x = k THEN v ELSE d[x]]

\* open() and json.load() on the configuration file: the exception raised
\* ("None" when the document is returned).
json_load(file) ==
    CASE file.kind = "missing"    -> "FileNotFoundError"
      [] file.kind = "unreadable" -> "PermissionError"
      [] file.kind = "malformed"  -> "JSONDecodeError"
      [] OTHER                    -> "None"

\* A loader that falls back to the defaults when the file cannot be loaded.
read_settings_lenient(file) ==
    [value |-> [k \in {"env_name", "packages"} |->
                  IF k = "env_name" THEN "Kamodo_env" ELSE <<"netCDF4">>],
     exc |-> "None", caught |-> FALSE, log |-> <<>>]

\* read_settings(json_file): the exception that ends it ("None" when it
\* returns), whether that exception is caught (logged, then sys.exit(1)), the
\* records it logs, and the settings it returns. A document that is not an
\* object has no setdefault: the AttributeError is raised outside the try
\* block and nothing catches it.
read_settings(file) ==
    LET raised == json_load(file)
        clause == Catch("read_settings", Exc(raised))
    IN  IF raised # "None"
        THEN [value |-> EmptyDict,
              exc |-> raised, caught |-> clause # "",
              log |-> IF clause # ""
                      THEN <<Handler("read_settings", clause, Exc(raised), "")>>
                      ELSE <<>>]
        ELSE IF file.kind # "object"
        THEN [value |-> EmptyDict,
              exc |-> "AttributeError", caught |-> FALSE, log |-> <<>>]
        ELSE [value |-> setdefault(setdefault(file.value, "env_name", DefaultEnvName),
                                   "packages", DefaultPackages),
              exc |-> "None", caught |-> FALSE, log |-> <<>>]

\* ----------------------------------------------------- external commands
\* The f-string "Python ({env_name})" of line 172.
DisplayName(env) ==
    CASE env = ""           -> "Python ()"
      [] env = "sp_env"     -> "Python (sp_env)"
      [] env = "Kamodo_env" -> "Python (Kamodo_env)"
      [] OTHER              -> "Python (?)"

MambaCreate(env) == <<"mamba", "create", "-n", env, "python=3.7", "-y">>
\* The list without its repeated entries.
RECURSIVE Dedup(_)
Dedup(pkgs) ==
    IF pkgs = <<>> THEN <<>>
    ELSE LET front == Dedup(SubSeq(pkgs, 1, Len(pkgs) - 1))
             last  == pkgs[Len(pkgs)]
         IN  IF \E i \in 1..Len(front) : front[i] = last
             THEN front
             ELSE Append(front, last)

\* An install that drops repeated package names.
MambaInstall_dedup(env, pkgs) ==
    <<"mamba", "install", "-n", env, "-c", "conda-forge">> \o Dedup(pkgs) \o <<"-y">>

MambaInstall(env, pkgs) ==
    <<"mamba", "install", "-n", env, "-c", "conda-forge">> \o pkgs \o <<"-y">>
GitClone(git) == <<git, "clone", "https://github.com/nasa/Kamodo.git", "Kamodo">>
PipInstall(env) == <<"conda", "run", "-n", env, "pip", "install", "Kamodo">>
MambaIpykernel(env) == <<"mamba", "install", "-n", env, "ipykernel", "-y">>
KernelInstall(env) ==
    <<"conda", "run", "-n", env, "python", "-m", "ipykernel", "install",
      "--user", "--name", env, "--display-name", DisplayName(env)>>
\* A removal of the default environment, whatever the settings say.
CondaRemove_default(env) == <<"conda", "env", "remove", "-n", "Kamodo_env", "-y">>

CondaRemove(env) == <<"conda", "env", "remove", "-n", env, "-y">>

\* ----------------------------------------------------------------- state
VARIABLES
    run,            \* number of the current invocation of the script
    argv,           \* sys.argv of the invocation
    config,         \* the configuration file as the invocation finds it
    path,           \* the executables found on the search path
    cloneDir,       \* the directory "Kamodo": "absent", "old" (there when the
                    \* invocation started) or "new" (written by its git clone)
    pc,             \* position of the invocation in main
    settings,       \* the dictionary read_settings returned
    env_name,       \* main's local env_name
    packages,       \* main's local packages
    git_executable, \* install_kamodo_ccmc's local ("" for None)
    proc,           \* the argv of the external process being waited on, or <<>>
    steps,          \* the step functions main has called, in order
    attempts,       \* the commands handed to subprocess.check_call, in order
    calls,          \* the commands that were started, in order
    removed,        \* whether shutil.rmtree was called in this invocation
    results,        \* how each called step ended: the exception, or "None"
    log,            \* the records logged by this invocation
    exit,           \* <<>> while running, <<status>> once the process exited
    uncaught,       \* class of the exception that reached the interpreter
    inflight,       \* number of external processes started and not yet ended
    now,            \* the wall clock, in half seconds
    log_filename,   \* the time stamp in the name of this invocation's log file
    logfiles,       \* the files under logs/: for each time stamp in a name,
                    \* the invocations (number, start time) that wrote to it
    dirAtLaunch     \* the directory "Kamodo" as the invocation found it

world == <<run, argv, config, path, now, log_filename, logfiles, dirAtLaunch>>
locals == <<settings, env_name, packages, git_executable>>
trace == <<steps, attempts, calls, removed>>
vars == <<run, argv, config, path, cloneDir, pc, settings, env_name, packages,
          git_executable, proc, steps, attempts, calls, removed, results, log,
          exit, uncaught, inflight, now, log_filename, logfiles, dirAtLaunch>>

\* Lines 50-52: the first record of every invocation.
INITIAL_MESSAGE == Info("Log file created: %s", <<"log_filename">>)

\* No process: nothing of an invocation's memory exists.
NoProcess ==
    /\ argv = <<>>
    /\ config = [kind |-> "missing", value |-> EmptyDict]
    /\ path = {}
    /\ settings = EmptyDict
    /\ env_name = ""
    /\ packages = <<>>
    /\ git_executable = ""
    /\ proc = <<>>
    /\ steps = <<>>
    /\ attempts = <<>>
    /\ calls = <<>>
    /\ removed = FALSE
    /\ results = <<>>
    /\ log = <<>>
    /\ exit = <<>>
    /\ uncaught = "None"
    /\ inflight = 0
    /\ log_filename = 0
    /\ dirAtLaunch = "absent"

\* Before the first invocation: the directory "Kamodo" may be there already.
Init ==
    /\ run = 0
    /\ pc = "idle"
    /\ cloneDir \in {"absent", "old"}
    /\ now = 0
    /\ logfiles = [f \in {} |-> {}]
    /\ NoProcess

\* git taken for granted, without looking it up.
which_unchecked(tool) == "/usr/bin/git"

\* shutil.which (line 126): the resolved executable, "" for None.
which(tool) == IF tool \in path THEN "/usr/bin/git" ELSE ""

\* Whether the operating system finds the executable a command names.
Resolvable(exe) == exe \in path \/ (exe = "/usr/bin/git" /\ "git" \in path)

\* Handlers that log the failure and let the function try again.
Raise_retry(fn, exc, lg) ==
    LET clause == Catch(fn, exc)
    IN  /\ log' = IF clause # ""
                  THEN Append(lg, Handler(fn, clause, exc, env_name))
                  ELSE lg
        /\ results' = Append(results, [step |-> fn, cause |-> exc.cls])
        /\ proc' = <<>>
        /\ UNCHANGED <<uncaught, exit, pc>>

\* The handlers calling sys.exit() without a status: the process exits with 0.
Raise_exit0(fn, exc, lg) ==
    LET clause == Catch(fn, exc)
    IN  /\ log' = IF clause # ""
                  THEN Append(lg, Handler(fn, clause, exc, env_name))
                  ELSE lg
        /\ uncaught' = IF clause # "" THEN "None" ELSE exc.cls
        /\ results' = Append(results, [step |-> fn, cause |-> exc.cls])
        /\ exit' = IF clause # "" THEN <<0>> ELSE <<1>>
        /\ pc' = "Aborted"
        /\ proc' = <<>>

\* The process ends with sys.exit(1) (lines 61, 88, 131, ...), or with an
\* exception nothing catches; the interpreter exits with status 1 in both.
\* lg is the log as it stands when the exception is raised.
Raise(fn, exc, lg) ==
    LET clause == Catch(fn, exc)
    IN  /\ log' = IF clause # ""
                  THEN Append(lg, Handler(fn, clause, exc, env_name))
                  ELSE lg
        /\ uncaught' = IF clause # "" THEN "None" ELSE exc.cls
        /\ results' = Append(results, [step |-> fn, cause |-> exc.cls])
        /\ exit' = <<1>>
        /\ pc' = "Aborted"
        /\ proc' = <<>>

\* ------------------------------------------------------------------ main
\* Lines 247-257: the order in which main calls the provisioning steps.
ProvisionSteps ==
    <<"create_mamba_env", "install_packages", "install_kamodo_ccmc",
      "enable_jupyter_kernel">>

\* main with steps 2 and 3 exchanged.
main_next_swapped(fn) ==
    CASE fn = "create_mamba_env"    -> "install_kamodo_ccmc"
      [] fn = "install_kamodo_ccmc" -> "install_packages"
      [] fn = "install_packages"    -> "enable_jupyter_kernel"
      [] OTHER                      -> "Done"

\* Where main continues when step fn has returned: the next call, or the end
\* of main (the return of line 245 after tear_down_env, the end of the body
\* after enable_jupyter_kernel).
main_next(fn) ==
    IF \E i \in 1..(Len(ProvisionSteps) - 1) : ProvisionSteps[i] = fn
    THEN ProvisionSteps[(CHOOSE i \in 1..(Len(ProvisionSteps) - 1) :
                            ProvisionSteps[i] = fn) + 1]
    ELSE "Done"

\* The flag looked for in the first argument only.
clean_requested_first(args) == Len(args) >= 2 /\ args[2] = "--clean"

\* Line 243: "--clean" in sys.argv.
clean_requested(args) == \E i \in 1..Len(args) : args[i] = "--clean"

\* Lines 236-240: main loads the settings.
LoadSettings ==
    /\ pc = "main"
    /\ LET r == read_settings(config)
       IN  /\ log' = log \o r.log
           /\ IF r.exc = "None"
              THEN /\ settings' = r.value
                   /\ env_name' = r.value["env_name"]
                   /\ packages' = r.value["packages"]
                   /\ pc' = "SettingsLoaded"
                   /\ UNCHANGED <<exit, uncaught>>
              ELSE /\ pc' = "Aborted"
                   /\ exit' = <<1>>
                   /\ uncaught' = IF r.caught THEN "None" ELSE r.exc
                   /\ UNCHANGED <<settings, env_name, packages>>
    /\ UNCHANGED <<world, cloneDir, git_executable, proc, inflight, trace, results>>

\* Lines 242-248: main selects the teardown path or the provisioning path.
SelectMode ==
    /\ pc = "SettingsLoaded"
    /\ pc' = IF clean_requested(argv) THEN "tear_down_env" ELSE ProvisionSteps[1]
    /\ UNCHANGED <<world, cloneDir, locals, proc, inflight, trace, results, log, exit, uncaught>>

\* A call that does not wait for the command started before it.
Call_nowait(fn, here, cmd, pre, enter) ==
    /\ pc = here
    /\ Resolvable(cmd[1])
    /\ steps' = IF enter /\ proc = <<>> THEN Append(steps, fn) ELSE steps
    /\ attempts' = Append(attempts, cmd)
    /\ proc' = cmd
    /\ inflight' = inflight + 1
    /\ calls' = Append(calls, cmd)
    /\ log' = log \o pre
    /\ UNCHANGED <<pc, results, exit, uncaught>>
    /\ UNCHANGED <<world, cloneDir, locals, removed>>

\* subprocess.check_call, first half: the command is handed to the operating
\* system. It starts, or the executable is not found (FileNotFoundError), or
\* the spawn fails otherwise (PermissionError, another OSError). pre are the
\* records logged just before the call; enter says that this is the first
\* statement of fn, reached by main's call of it.
Call(fn, here, cmd, pre, enter) ==
    /\ pc = here
    /\ proc = <<>>
    /\ steps' = IF enter THEN Append(steps, fn) ELSE steps
    /\ attempts' = Append(attempts, cmd)
    /\ \/ /\ Resolvable(cmd[1])
          /\ proc' = cmd
          /\ inflight' = inflight + 1
          /\ calls' = Append(calls, cmd)
          /\ log' = log \o pre
          /\ UNCHANGED <<pc, results, exit, uncaught>>
       \/ /\ ~Resolvable(cmd[1])
          /\ Raise(fn, Exc("FileNotFoundError"), log \o pre)
          /\ UNCHANGED <<calls, inflight>>
       \/ /\ Resolvable(cmd[1])
          /\ \E cls \in {"PermissionError", "OSError"} :
                Raise(fn, Exc(cls), log \o pre)
          /\ UNCHANGED <<calls, inflight>>
    /\ UNCHANGED <<world, cloneDir, locals, removed>>

\* Exit statuses the command being waited on can end with. git refuses to
\* clone into a directory that exists.
ExitCodes(cmd) ==
    IF cmd[2] = "clone" /\ cloneDir # "absent" THEN {128} ELSE {0} \cup FailCodes

\* A failed clone that puts back the directory the run found at its start.
DirAfter_restored(cmd, rc) ==
    IF cmd[2] = "clone" /\ rc # 0 THEN {dirAtLaunch}
    ELSE IF cmd[2] # "clone" \/ cloneDir # "absent" THEN {cloneDir}
    ELSE {"new"}

\* What the finished command leaves of the directory "Kamodo": a successful
\* clone creates it, a failed one leaves nothing or a partial tree.
DirAfter(cmd, rc) ==
    IF cmd[2] # "clone" \/ cloneDir # "absent" THEN {cloneDir}
    ELSE IF rc = 0 THEN {"new"}
    ELSE {"absent", "new"}

\* subprocess.check_call, second half: the command ends. Status 0 returns to
\* fn, which logs post and goes on at next (a pc of fn, or, when last, main's
\* continuation); any other status raises CalledProcessError.
Return(fn, here, next, post, last) ==
    /\ pc = here
    /\ proc # <<>>
    /\ inflight' = inflight - 1
    /\ \E rc \in ExitCodes(proc) :
          /\ \E d \in DirAfter(proc, rc) : cloneDir' = d
          /\ IF rc = 0
             THEN /\ log' = log \o post
                  /\ pc' = next
                  /\ proc' = <<>>
                  /\ results' = IF last
                                THEN Append(results, [step |-> fn, cause |-> "None"])
                                ELSE results
                  /\ exit' = IF next = "Done" THEN <<0>> ELSE exit
                  /\ UNCHANGED uncaught
             ELSE Raise(fn, CalledProcessError(rc), log)
    /\ UNCHANGED <<world, locals, trace>>

\* ------------------------------------------------------ create_mamba_env
create_mamba_env_call ==
    Call("create_mamba_env", "create_mamba_env", MambaCreate(env_name),
         <<Info("Creating Conda environment: %s", <<env_name>>)>>, TRUE)

create_mamba_env_return ==
    Return("create_mamba_env", "create_mamba_env", main_next("create_mamba_env"),
           <<Info("Conda environment %s created successfully.", <<env_name>>)>>, TRUE)

\* ------------------------------------------------------ install_packages
install_packages_call ==
    Call("install_packages", "install_packages",
         MambaInstall(env_name, packages), <<>>, TRUE)

install_packages_return ==
    Return("install_packages", "install_packages", main_next("install_packages"),
           <<Info("Packages installed successfully in environment %s.", <<env_name>>)>>,
           TRUE)

\* --------------------------------------------------- install_kamodo_ccmc
\* os.path.exists(clone_dir), line 137.
exists == cloneDir # "absent"

\* Lines 126-131: git is resolved; without it the step logs and exits, outside
\* any try block.
install_kamodo_ccmc_resolve ==
    /\ pc = "install_kamodo_ccmc"
    /\ steps' = Append(steps, "install_kamodo_ccmc")
    /\ git_executable' = which("git")
    /\ IF which("git") = ""
       THEN /\ log' = Append(log, Error(
                "Git is not installed or not found in PATH. Please install Git and try again.",
                <<>>))
            /\ results' = Append(results,
                                 [step |-> "install_kamodo_ccmc", cause |-> "which"])
            /\ exit' = <<1>>
            /\ pc' = "Aborted"
       ELSE /\ pc' = "install_kamodo_ccmc:exists"
            /\ UNCHANGED <<log, results, exit>>
    /\ UNCHANGED <<world, cloneDir, settings, env_name, packages, proc, inflight, attempts,
                   calls, removed, uncaught>>

\* The step without the deletion of lines 137-139.
install_kamodo_ccmc_no_rmtree ==
    /\ pc = "install_kamodo_ccmc:exists"
    /\ pc' = "install_kamodo_ccmc:clone"
    /\ UNCHANGED <<world, cloneDir, locals, proc, inflight, trace, results, log, exit, uncaught>>

\* Lines 137-139: an existing clone directory is deleted. shutil.rmtree
\* removes it, or raises (PermissionError, another OSError) and leaves it.
install_kamodo_ccmc_rmtree ==
    /\ pc = "install_kamodo_ccmc:exists"
    /\ IF exists
       THEN LET lg == Append(log, Info(
                        "Directory %s already exists. Deleting it to proceed.",
                        <<"Kamodo">>))
            IN  /\ removed' = TRUE
                /\ \/ /\ cloneDir' = "absent"
                      /\ log' = lg
                      /\ pc' = "install_kamodo_ccmc:clone"
                      /\ UNCHANGED <<proc, inflight, results, exit, uncaught>>
                   \/ /\ \E cls \in {"PermissionError", "OSError"} :
                            Raise("install_kamodo_ccmc", Exc(cls), lg)
                      /\ UNCHANGED <<cloneDir, inflight>>
       ELSE /\ pc' = "install_kamodo_ccmc:clone"
            /\ UNCHANGED <<cloneDir, removed, proc, inflight, results, log, exit, uncaught>>
    /\ UNCHANGED <<world, locals, steps, attempts, calls>>

\* The step without the clone of lines 141-143.
git_clone_call_skipped ==
    /\ pc = "install_kamodo_ccmc:clone"
    /\ pc' = "install_kamodo_ccmc:pip"
    /\ UNCHANGED <<world, cloneDir, locals, proc, inflight, trace, results, log, exit, uncaught>>

\* Lines 141-142.
git_clone_call ==
    Call("install_kamodo_ccmc", "install_kamodo_ccmc:clone", GitClone(git_executable),
         <<Info("Cloning the Kamodo repository...", <<>>)>>, FALSE)

\* Lines 142-143.
git_clone_return ==
    Return("install_kamodo_ccmc", "install_kamodo_ccmc:clone", "install_kamodo_ccmc:pip",
           <<Info("Repository cloned successfully.", <<>>)>>, FALSE)

\* Lines 146-149.
pip_install_call ==
    Call("install_kamodo_ccmc", "install_kamodo_ccmc:pip", PipInstall(env_name),
         <<Info("Installing Kamodo...", <<>>)>>, FALSE)

\* Lines 147-150.
pip_install_return ==
    Return("install_kamodo_ccmc", "install_kamodo_ccmc:pip",
           main_next("install_kamodo_ccmc"),
           <<Info("Kamodo installed successfully in %s.", <<env_name>>)>>, TRUE)

\* ------------------------------------------------- enable_jupyter_kernel
\* Line 167.
ipykernel_call ==
    Call("enable_jupyter_kernel", "enable_jupyter_kernel", MambaIpykernel(env_name),
         <<>>, TRUE)

\* The success record logged after the first of the two commands.
ipykernel_return_logged ==
    Return("enable_jupyter_kernel", "enable_jupyter_kernel",
           "enable_jupyter_kernel:install",
           <<Info("Jupyter kernel for environment %s installed successfully.",
                  <<env_name>>)>>, FALSE)

\* Lines 167-168.
ipykernel_return ==
    Return("enable_jupyter_kernel", "enable_jupyter_kernel",
           "enable_jupyter_kernel:install", <<>>, FALSE)

\* Lines 168-173.
kernel_install_call ==
    Call("enable_jupyter_kernel", "enable_jupyter_kernel:install",
         KernelInstall(env_name), <<>>, FALSE)

\* Lines 168-175.
kernel_install_return ==
    Return("enable_jupyter_kernel", "enable_jupyter_kernel:install",
           main_next("enable_jupyter_kernel"),
           <<Info("Jupyter kernel for environment %s installed successfully.",
                  <<env_name>>)>>, TRUE)

\* --------------------------------------------------------- tear_down_env
\* Line 200.
tear_down_env_call ==
    Call("tear_down_env", "tear_down_env", CondaRemove(env_name), <<>>, TRUE)

\* Lines 200-201, and main's return of line 245.
tear_down_env_return ==
    Return("tear_down_env", "tear_down_env", main_next("tear_down_env"),
           <<Info("Conda environment '%s' has been removed.", <<env_name>>)>>, TRUE)

\* ------------------------------------------------------ the invocations
\* Time that passes between the start of one invocation and the start of the
\* next, in half seconds: the next one starts later, possibly within the
\* same second.
Delays == {1, 2}

\* A log file name that does not depend on the time.
strftime_constant(t) == 0

\* Line 32: datetime.now().strftime('%Y%m%d_%H%M%S'), the time to the second.
strftime(t) == t \div 2

\* The log file opened with a mode that truncates it.
open_truncate(files, name, writer) ==
    [f \in DOMAIN files \cup {name} |->
        IF f = name THEN {writer} ELSE files[f]]

\* Lines 36-41 and 52: logging.basicConfig(filename=..., filemode='a') and the
\* first record. The file is created if it is not there and is appended to if
\* it is; every later record of the invocation goes to the same file.
open_append(files, name, writer) ==
    [f \in DOMAIN files \cup {name} |->
        (IF f \in DOMAIN files THEN files[f] ELSE {})
        \cup (IF f = name THEN {writer} ELSE {})]

\* The script is started (lines 25-52 and 259-260): the command line, the
\* configuration file and the search path are whatever the user made of them;
\* logging is configured and the first record is logged; main is called.
Launch ==
    /\ pc = "idle"
    /\ run < MaxRuns
    /\ run' = run + 1
    /\ argv' \in ArgLists
    /\ config' \in ConfigFiles
    /\ path' \in SUBSET Tools
    /\ \E d \in Delays : now' = now + d
    /\ log_filename' = strftime(now')
    /\ logfiles' = open_append(logfiles, log_filename', [run |-> run', start |-> now'])
    /\ dirAtLaunch' = cloneDir
    /\ log' = <<INITIAL_MESSAGE>>
    /\ pc' = "main"
    /\ UNCHANGED <<cloneDir, locals, proc, inflight, trace, results, exit, uncaught>>

\* The process is gone after its exit; the directory "Kamodo" stays as the
\* invocation left it.
Terminate ==
    /\ pc \in {"Done", "Aborted"}
    /\ run < MaxRuns
    /\ pc' = "idle"
    /\ cloneDir' = IF cloneDir = "absent" THEN "absent" ELSE "old"
    /\ argv' = <<>>
    /\ config' = [kind |-> "missing", value |-> EmptyDict]
    /\ path' = {}
    /\ settings' = EmptyDict
    /\ env_name' = ""
    /\ packages' = <<>>
    /\ git_executable' = ""
    /\ proc' = <<>>
    /\ steps' = <<>>
    /\ attempts' = <<>>
    /\ calls' = <<>>
    /\ removed' = FALSE
    /\ results' = <<>>
    /\ log' = <<>>
    /\ exit' = <<>>
    /\ uncaught' = "None"
    /\ inflight' = 0
    /\ log_filename' = 0
    /\ dirAtLaunch' = "absent"
    /\ UNCHANGED <<run, now, logfiles>>

Next ==
    \/ LoadSettings
    \/ SelectMode
    \/ create_mamba_env_call
    \/ create_mamba_env_return
    \/ install_packages_call
    \/ install_packages_return
    \/ install_kamodo_ccmc_resolve
    \/ install_kamodo_ccmc_rmtree
    \/ git_clone_call
    \/ git_clone_return
    \/ pip_install_call
    \/ pip_install_return
    \/ ipykernel_call
    \/ ipykernel_return
    \/ kernel_install_call
    \/ kernel_install_return
    \/ tear_down_env_call
    \/ tear_down_env_return
    \/ Launch
    \/ Terminate

Spec == Init /\ [][Next]_vars

\* The steps of the running process: the interpreter executes main's next
\* statement, and a command that was started ends.
ProcessStep ==
    \/ LoadSettings
    \/ SelectMode
    \/ create_mamba_env_call
    \/ create_mamba_env_return
    \/ install_packages_call
    \/ install_packages_return
    \/ install_kamodo_ccmc_resolve
    \/ install_kamodo_ccmc_rmtree
    \/ git_clone_call
    \/ git_clone_return
    \/ pip_install_call
    \/ pip_install_return
    \/ ipykernel_call
    \/ ipykernel_return
    \/ kernel_install_call
    \/ kernel_install_return
    \/ tear_down_env_call
    \/ tear_down_env_return

\* The process keeps running while it has a statement to execute, and every
\* command it waits for ends; no invocation is ever required to be launched.
FairSpec == Spec /\ WF_vars(ProcessStep)

\* ================================================================ claims
HasClean(args) == "--clean" \in {args[i] : i \in DOMAIN args}
Loaded == pc \notin {"idle", "main"} /\ DOMAIN settings = {"env_name", "packages"}
Terminal == pc \in {"Done", "Aborted"}
IsPrefix(s, t) == Len(s) <= Len(t) /\ \A i \in 1..Len(s) : s[i] = t[i]
Failed(k) == results[k].cause # "None"
StepOrder ==
    <<"create_mamba_env", "install_packages", "install_kamodo_ccmc",
      "enable_jupyter_kernel">>

\* C1: without --clean and with the settings loaded, the steps main has called
\* are always an initial part of CreateEnvironment, InstallPackages,
\* InstallFrameworkFromSource, RegisterKernel, each called after the one before
\* it returned; once step k has ended with a failure, exactly k steps have been
\* called and the run is Aborted.
C1_ProvisionOrderFailFast ==
    (Loaded /\ ~HasClean(argv)) =>
        /\ IsPrefix(steps, StepOrder)
        /\ Len(results) <= Len(steps)
        /\ Len(steps) <= Len(results) + 1
        /\ \A k \in 1..Len(results) :
              /\ results[k].step = StepOrder[k]
              /\ Failed(k) => (Len(steps) = k /\ Len(results) = k /\ pc = "Aborted")
        /\ pc = "Done" => steps = StepOrder

C1_Witness ==
    /\ ~HasClean(argv)
    /\ pc = "Aborted"
    /\ Len(steps) = 3
    /\ Len(results) = 3
    /\ results[3].cause = "CalledProcessError"

\* C2: when --clean is anywhere on the command line, whatever else is on it,
\* the only step main ever calls is TeardownEnvironment, once: the only command
\* handed to the operating system is the removal of the environment, git is
\* never resolved, the clone directory is never deleted, and a run that has
\* ended with the settings loaded has called TeardownEnvironment exactly once.
C2_CleanRunsOnlyTeardown ==
    HasClean(argv) =>
        /\ IsPrefix(steps, <<"tear_down_env">>)
        /\ IsPrefix(attempts, <<<<"conda", "env", "remove", "-n", env_name, "-y">>>>)
        /\ git_executable = ""
        /\ ~removed
        /\ cloneDir # "new"
        /\ (Loaded /\ Terminal) => (steps = <<"tear_down_env">> /\ Len(attempts) = 1)

C2_Witness ==
    /\ Len(argv) = 3
    /\ argv[2] = "--force"
    /\ argv[3] = "--clean"
    /\ pc = "Done"
    /\ steps = <<"tear_down_env">>
    /\ calls = <<<<"conda", "env", "remove", "-n", "sp_env", "-y">>>>

\* C3: when the configuration file is missing, unreadable, not JSON or not a
\* JSON object, in either mode, the run goes from the settings load straight
\* to Aborted with exit status 1: no step is called, no command is handed to
\* the operating system, git is not resolved and nothing is deleted.
C3_BadConfigAbortsBeforeAnyTool ==
    (pc \notin {"idle", "main"} /\ config.kind # "object") =>
        /\ pc = "Aborted"
        /\ exit = <<1>>
        /\ steps = <<>>
        /\ attempts = <<>>
        /\ calls = <<>>
        /\ results = <<>>
        /\ git_executable = ""
        /\ ~removed

C3_Witness ==
    /\ config.kind = "malformed"
    /\ HasClean(argv)
    /\ path = {"mamba", "conda", "git"}
    /\ pc = "Aborted"
    /\ log[Len(log)].level = "ERROR"

\* The run has loaded its settings and every step of its mode returned normally.
AllSucceeded ==
    /\ Loaded
    /\ IF HasClean(argv)
       THEN results = <<[step |-> "tear_down_env", cause |-> "None"]>>
       ELSE /\ Len(results) = 4
            /\ \A k \in 1..4 : results[k] = [step |-> StepOrder[k], cause |-> "None"]

\* C4: a run that has ended has exit status 0 or 1, and 0 exactly when the
\* settings were loaded and every step of the selected mode succeeded; Done is
\* the end with status 0 and Aborted the end with status 1; a run that has not
\* ended has no exit status; and from Done or Aborted the process takes no
\* further step (what follows is only the process being gone).
C4_ExitCode ==
    /\ [](/\ Terminal => exit \in {<<0>>, <<1>>}
          /\ ~Terminal => exit = <<>>
          /\ exit = <<0>> <=> (Terminal /\ AllSucceeded)
          /\ pc = "Done" <=> exit = <<0>>
          /\ pc = "Aborted" <=> exit = <<1>>)
    /\ [][Terminal => (pc' = "idle" /\ log' = <<>> /\ attempts' = <<>>)]_vars

C4_Witness ==
    /\ pc = "Done"
    /\ exit = <<0>>
    /\ ~HasClean(argv)
    /\ Len(results) = 4

\* The informational records a step logs when it succeeds.
SuccessRecord(fn) ==
    CASE fn = "create_mamba_env" ->
            Info("Conda environment %s created successfully.", <<env_name>>)
      [] fn = "install_packages" ->
            Info("Packages installed successfully in environment %s.", <<env_name>>)
      [] fn = "install_kamodo_ccmc" ->
            Info("Kamodo installed successfully in %s.", <<env_name>>)
      [] fn = "enable_jupyter_kernel" ->
            Info("Jupyter kernel for environment %s installed successfully.", <<env_name>>)
      [] OTHER ->
            Info("Conda environment '%s' has been removed.", <<env_name>>)

Logged(rec) == \E i \in 1..Len(log) : log[i] = rec

\* C5: every step, TeardownEnvironment included, logs an informational
\* record when it succeeds, and whenever a step ends with a failure of any
\* kind the last record of the log is an error record.
C5_EveryStepOutcomeLogged ==
    \A k \in 1..Len(results) :
        IF Failed(k)
        THEN log[Len(log)].level = "ERROR"
        ELSE Logged(SuccessRecord(results[k].step))

\* The part of C5 the code satisfies: the four provisioning steps.
C5_ProvisioningOutcomesLogged ==
    \A k \in 1..Len(results) :
        results[k].step # "tear_down_env" =>
            IF Failed(k)
            THEN log[Len(log)].level = "ERROR"
            ELSE Logged(SuccessRecord(results[k].step))

\* C6: when git is not on the search path as InstallFrameworkFromSource
\* starts, the run is Aborted with exit status 1 and an error record, no clone
\* was attempted (the only commands are those of steps 1 and 2), and the clone
\* directory was neither deleted nor written.
C6_NoGitNoCloneNoDelete ==
    (Len(steps) >= 3 /\ "git" \notin path) =>
        /\ pc = "Aborted"
        /\ exit = <<1>>
        /\ results[3] = [step |-> "install_kamodo_ccmc", cause |-> "which"]
        /\ log[Len(log)].level = "ERROR"
        /\ Len(attempts) = 2
        /\ \A i \in 1..Len(attempts) : attempts[i][1] = "mamba"
        /\ ~removed
        /\ cloneDir # "new"

C6_Witness ==
    /\ Len(steps) = 3
    /\ "git" \notin path
    /\ cloneDir = "old"
    /\ pc = "Aborted"

\* C7: in every run, the first or a later one, the clone command is handed
\* to the operating system, and runs, only while the clone directory does not
\* exist: a directory that was there when the step started has been deleted
\* by then, so git never fails on an existing destination.
C7_CloneOnlyWithoutDirectory ==
    /\ pc = "install_kamodo_ccmc:clone" => cloneDir = "absent"
    /\ (proc # <<>> /\ proc[2] = "clone") => cloneDir = "absent"
    /\ (pc = "install_kamodo_ccmc:clone" /\ ~removed) => cloneDir # "old"

C7_Witness ==
    /\ run = 2
    /\ removed
    /\ pc = "install_kamodo_ccmc:pip"
    /\ cloneDir = "new"

\* C8: in a provisioning run without mamba on the search path, once
\* CreateEnvironment has been called the run is Aborted with exit status 1:
\* the create command was attempted and never started, the step ended with
\* FileNotFoundError and logged the mamba-not-found error as the last record,
\* and no other step was called or logged.
C8_MambaMissingAbortsAtCreate ==
    (Len(steps) >= 1 /\ ~HasClean(argv) /\ "mamba" \notin path) =>
        /\ pc = "Aborted"
        /\ exit = <<1>>
        /\ steps = <<"create_mamba_env">>
        /\ results = <<[step |-> "create_mamba_env", cause |-> "FileNotFoundError"]>>
        /\ attempts = <<<<"mamba", "create", "-n", env_name, "python=3.7", "-y">>>>
        /\ calls = <<>>
        /\ log = <<INITIAL_MESSAGE,
                   Info("Creating Conda environment: %s", <<env_name>>),
                   Error("Mamba is not installed or not found in PATH. Please install Mamba and try again.",
                         <<>>)>>

C8_Witness ==
    /\ steps = <<"create_mamba_env">>
    /\ path = {"conda", "git"}
    /\ pc = "Aborted"

\* C9: for every configuration document that is a JSON object, the settings
\* read_settings returns have exactly the keys env_name and packages; each
\* is the document's value when the document has the key and the default
\* ("Kamodo_env", the nine default packages) when it has not, independently of
\* the other key; main's locals are these two values.
C9_DefaultsPerKey ==
    (pc \notin {"idle", "main"} /\ config.kind = "object") =>
        LET doc == config.value
        IN  /\ DOMAIN settings = {"env_name", "packages"}
            /\ settings["env_name"] =
                  IF "env_name" \in DOMAIN doc THEN doc["env_name"] ELSE "Kamodo_env"
            /\ settings["packages"] =
                  IF "packages" \in DOMAIN doc THEN doc["packages"]
                  ELSE <<"netCDF4", "cdflib", "astropy", "ipython", "jupyter",
                         "h5py", "sgp4", "spacepy", "hapiclient">>
            /\ env_name = settings["env_name"]
            /\ packages = settings["packages"]

C9_Witness ==
    /\ pc = "SettingsLoaded"
    /\ DOMAIN config.value = {"env_name"}
    /\ config.value["env_name"] = "sp_env"
    /\ env_name = "sp_env"
    /\ Len(packages) = 9

\* C10 as stated: whenever a step has been called, the environment name is
\* non-empty.
C10_EnvNameNonEmpty == Len(steps) >= 1 => env_name # ""

\* C10 amended: whenever a step has been called, the environment name is
\* empty exactly when the document supplies an empty env_name; it is
\* non-empty when the document omits the key or supplies a non-empty name.
C10_EnvNameEmptyOnlyIfSupplied ==
    Len(steps) >= 1 =>
        (env_name = "" <=>
            ("env_name" \in DOMAIN config.value /\ config.value["env_name"] = ""))

C10_Witness ==
    /\ Len(steps) >= 1
    /\ "env_name" \notin DOMAIN config.value
    /\ env_name = "Kamodo_env"
    /\ Len(calls) >= 1

\* C11: at most one external process is in flight at any time: a command is
\* started only when no started command is still running, the one in flight
\* is the one started last, all started earlier have ended, and the run never
\* ends with a process still in flight.
C11_OneProcessInFlight ==
    /\ inflight \in {0, 1}
    /\ inflight = 1 <=> proc # <<>>
    /\ inflight = 1 => (calls # <<>> /\ proc = calls[Len(calls)])
    /\ (Terminal \/ pc = "idle") => inflight = 0

C11_Witness ==
    /\ inflight = 1
    /\ Len(calls) = 6
    /\ proc = calls[6]
    /\ pc = "enable_jupyter_kernel:install"
    /\ run = 2

Injective(q) == \A i, j \in 1..Len(q) : q[i] = q[j] => i = j
FailureSeen == pc = "Aborted" \/ \E k \in 1..Len(results) : Failed(k)

\* C12: within one run no step is called twice and no command is handed to the
\* operating system twice; a command that could not be started is the last
\* one attempted; at most one step has failed, it is the last one called, and
\* the run is then Aborted; and once a failure has occurred no further command
\* is attempted by that run.
C12_NoRetries ==
    /\ [](/\ Injective(steps)
          /\ Injective(attempts)
          /\ Len(calls) <= Len(attempts)
          /\ Len(attempts) <= Len(calls) + 1
          /\ Len(attempts) > Len(calls) => pc = "Aborted"
          /\ \A k \in 1..Len(results) :
                Failed(k) => (k = Len(results) /\ k = Len(steps) /\ pc = "Aborted"))
    /\ [][FailureSeen => (attempts' = attempts \/ pc' = "idle")]_vars
    /\ [][FailureSeen => (steps' = steps \/ pc' = "idle")]_vars

C12_Witness ==
    /\ pc = "Aborted"
    /\ Len(attempts) = 5
    /\ Len(calls) = 5
    /\ Len(results) = 4
    /\ results[4].cause = "CalledProcessError"

\* The state of the sequencer the process is in: step k of the provisioning
\* covers every position inside the k-th step function.
Phase(p) ==
    CASE p = "idle"                        -> "None"
      [] p = "main"                        -> "Start"
      [] p = "SettingsLoaded"              -> "SettingsLoaded"
      [] p = "create_mamba_env"            -> "Provisioning1"
      [] p = "install_packages"            -> "Provisioning2"
      [] p \in {"install_kamodo_ccmc", "install_kamodo_ccmc:exists",
                "install_kamodo_ccmc:clone", "install_kamodo_ccmc:pip"}
                                           -> "Provisioning3"
      [] p \in {"enable_jupyter_kernel", "enable_jupyter_kernel:install"}
                                           -> "Provisioning4"
      [] p = "tear_down_env"               -> "TearingDown"
      [] OTHER                             -> p

\* The transitions of the sequencer; a failed settings load leads from Start
\* to Aborted.
PhaseSteps ==
    {<<"None", "Start">>,
     <<"Start", "SettingsLoaded">>, <<"Start", "Aborted">>,
     <<"SettingsLoaded", "Provisioning1">>, <<"SettingsLoaded", "TearingDown">>,
     <<"Provisioning1", "Provisioning2">>, <<"Provisioning1", "Aborted">>,
     <<"Provisioning2", "Provisioning3">>, <<"Provisioning2", "Aborted">>,
     <<"Provisioning3", "Provisioning4">>, <<"Provisioning3", "Aborted">>,
     <<"Provisioning4", "Done">>, <<"Provisioning4", "Aborted">>,
     <<"TearingDown", "Done">>, <<"TearingDown", "Aborted">>,
     <<"Done", "None">>, <<"Aborted", "None">>}

\* C13: when the process keeps running and every command it started ends,
\* every run that has started reaches Done or Aborted; on the way the
\* sequencer only takes the transitions Start -> SettingsLoaded ->
\* Provisioning 1..4 in order or TearingDown -> Done or Aborted (a failure
\* leading to Aborted from wherever it occurs); and Done is reached only with
\* every step of the mode succeeded.
C13_RunTerminates ==
    /\ (pc = "main") ~> Terminal
    /\ [][Phase(pc') = Phase(pc) \/ <<Phase(pc), Phase(pc')>> \in PhaseSteps]_vars
    /\ [](pc = "Done" => AllSucceeded)

C13_Witness ==
    /\ pc = "Done"
    /\ run = 2
    /\ HasClean(argv)
    /\ Len(calls) = 1

\* The messages each step function can log.
StepMessages(fn) ==
    CASE fn = "create_mamba_env" ->
            {"Creating Conda environment: %s",
             "Conda environment %s created successfully.",
             "Mamba command failed with exit code %s while creating Conda environment %s.",
             "Mamba is not installed or not found in PATH. Please install Mamba and try again.",
             "An OS error occurred while creating Conda environment %s: %s"}
      [] fn = "install_packages" ->
            {"Packages installed successfully in environment %s.",
             "Mamba command failed with exit code %s while installing packages in environment %s.",
             "Mamba is not installed or not found in PATH. Please install Mamba and try again.",
             "An OS error occurred while installing packages in environment %s: %s"}
      [] fn = "install_kamodo_ccmc" ->
            {"Git is not installed or not found in PATH. Please install Git and try again.",
             "Directory %s already exists. Deleting it to proceed.",
             "Cloning the Kamodo repository...",
             "Repository cloned successfully.",
             "Installing Kamodo...",
             "Kamodo installed successfully in %s.",
             "Command failed with exit code %s: %s",
             "Required executable not found: %s",
             "Permission error occurred: %s",
             "An OS error occurred: %s"}
      [] fn = "enable_jupyter_kernel" ->
            {"Jupyter kernel for environment %s installed successfully.",
             "Command failed with exit code %s while enabling Jupyter kernel for environment %s.",
             "Required executable not found. Ensure that Mamba, Conda, and Python are in PATH.",
             "Permission error while enabling Jupyter kernel: %s",
             "An OS error occurred while enabling Jupyter kernel: %s"}
      [] fn = "tear_down_env" ->
            {"Conda environment '%s' has been removed.",
             "Failed to remove Conda environment '%s'. Process error: %s",
             "The 'conda' command was not found. Ensure Conda is installed and in PATH. Error: %s"}
      [] OTHER -> {}

\* C14: the log of every run starts with the initialization record, which is
\* the only record when main starts (before the settings load and before any
\* step), and the log of a run that has ended holds at least one record of
\* every step that was called, whatever its outcome, in both modes.
C14_LogCoversEveryStep ==
    /\ pc # "idle" => (log # <<>> /\ log[1] = INITIAL_MESSAGE)
    /\ pc = "main" => (log = <<INITIAL_MESSAGE>> /\ steps = <<>>)
    /\ Terminal =>
          \A k \in 1..Len(steps) :
              \E i \in 2..Len(log) : log[i].msg \in StepMessages(steps[k])

\* The part of C14 the code satisfies: the initialization record, and a
\* record of every step that ended otherwise than with an exception its
\* function does not catch.
C14_LogCoversHandledSteps ==
    /\ pc # "idle" => (log # <<>> /\ log[1] = INITIAL_MESSAGE)
    /\ pc = "main" => (log = <<INITIAL_MESSAGE>> /\ steps = <<>>)
    /\ (Terminal /\ uncaught = "None") =>
          \A k \in 1..Len(steps) :
              \E i \in 2..Len(log) : log[i].msg \in StepMessages(steps[k])

\* Every writer recorded in a log file, with the file.
Wrote == UNION {{<<f, w>> : w \in logfiles[f]} : f \in DOMAIN logfiles}

\* C15 as stated: no log file holds the records of two runs.
C15_LogFileUniquePerRun ==
    \A f \in DOMAIN logfiles : Cardinality(logfiles[f]) <= 1

\* C15 amended: every run that was started wrote to exactly one log file, the
\* one named by the second its start time falls in, and its records stay in
\* it; so two runs have different log files exactly when they started in
\* different seconds, and runs started within the same second share one file.
C15_LogFilePerStartSecond ==
    /\ \A r \in 1..run :
          Cardinality({fw \in Wrote : fw[2].run = r}) = 1
    /\ \A fw \in Wrote : fw[1] = fw[2].start \div 2
    /\ \A a, b \in Wrote :
          (a[1] = b[1]) <=> (a[2].start \div 2 = b[2].start \div 2)
    /\ pc \notin {"idle"} =>
          \E w \in logfiles[log_filename] : w.run = run /\ w.start = now

C15_Witness ==
    /\ run = 2
    /\ pc = "Done"
    /\ \E f \in DOMAIN logfiles : Cardinality(logfiles[f]) = 2

\* The packages the configuration document asks for.
ConfiguredPackages ==
    IF "packages" \in DOMAIN config.value THEN config.value["packages"]
    ELSE <<"netCDF4", "cdflib", "astropy", "ipython", "jupyter",
           "h5py", "sgp4", "spacepy", "hapiclient">>

IsPackageInstall(cmd) == cmd[1] = "mamba" /\ cmd[2] = "install" /\ cmd[5] = "-c"

\* C16: once InstallPackages has been called, exactly one package-install
\* command has been attempted in the run, the second command of the run, and
\* its arguments are the configured package list as it is (same elements, same
\* order, repetitions kept, an empty list kept) between the channel option and
\* -y; when it fails the run is Aborted with no further command.
C16_OneInstallWithFullList ==
    Len(steps) >= 2 =>
        /\ {i \in 1..Len(attempts) : IsPackageInstall(attempts[i])} = {2}
        /\ attempts[2] =
              <<"mamba", "install", "-n", env_name, "-c", "conda-forge">>
              \o ConfiguredPackages \o <<"-y">>
        /\ (Len(results) >= 2 /\ Failed(2)) =>
              (pc = "Aborted" /\ exit = <<1>> /\ Len(attempts) = 2)

C16_Witness ==
    /\ Len(results) >= 2
    /\ ~Failed(2)
    /\ calls[2] = <<"mamba", "install", "-n", "sp_env", "-c", "conda-forge",
                    "scipy", "numpy", "scipy", "-y">>

\* The environment name the configuration document asks for.
ConfiguredEnv ==
    IF "env_name" \in DOMAIN config.value THEN config.value["env_name"]
    ELSE "Kamodo_env"

\* The command names the environment e wherever it names one: after every -n
\* and --name, and at least once unless it is the clone.
NamesOnly(cmd, e) ==
    /\ \A i \in 1..(Len(cmd) - 1) : cmd[i] \in {"-n", "--name"} => cmd[i + 1] = e
    /\ cmd[2] # "clone" => \E i \in 1..(Len(cmd) - 1) : cmd[i] = "-n"

\* C17: the settings, and main's copies of them, do not change from the load
\* to the end of the run; every command of the run that names an environment
\* names the one the load returned, which is the configured one; and with
\* env_name "sp_env" and --clean the only command is the removal of sp_env,
\* the exit status being 0 exactly when that command was started and ended
\* with status 0.
C17_OneEnvironmentPerRun ==
    /\ [][(Loaded /\ pc' # "idle") =>
            (settings' = settings /\ env_name' = env_name /\ packages' = packages)]_vars
    /\ [](Loaded =>
            /\ env_name = ConfiguredEnv
            /\ settings["env_name"] = ConfiguredEnv
            /\ \A i \in 1..Len(attempts) : NamesOnly(attempts[i], ConfiguredEnv))
    /\ []((Loaded /\ HasClean(argv) /\ ConfiguredEnv = "sp_env") =>
            /\ IsPrefix(attempts, <<<<"conda", "env", "remove", "-n", "sp_env", "-y">>>>)
            /\ Terminal =>
                  (exit = <<0>> <=>
                      /\ calls = <<<<"conda", "env", "remove", "-n", "sp_env", "-y">>>>
                      /\ results = <<[step |-> "tear_down_env", cause |-> "None"]>>))

C17_Witness ==
    /\ argv = <<"oss_kamodo_installer.py", "--clean">>
    /\ config.value = [env_name |-> "sp_env", packages |-> <<"numpy">>]
    /\ pc = "Aborted"
    /\ calls = <<<<"conda", "env", "remove", "-n", "sp_env", "-y">>>>
    /\ exit = <<1>>

IsClone(cmd) == cmd[2] = "clone"
IsRegistryInstall(cmd) == Len(cmd) >= 5 /\ cmd[5] = "pip"

\* C18: inside InstallFrameworkFromSource the clone is attempted only with git
\* resolved and after an existing clone directory was deleted; the install by
\* registry name is attempted only as the command after the clone, once the
\* clone was started and ended with status 0; a clone that ends with another
\* status aborts the run with exit status 1 and no install attempted; and a
\* step that succeeded has run both the clone and the install.
C18_ResolveDeleteCloneInstall ==
    /\ \A i \in 1..Len(attempts) :
          IsClone(attempts[i]) =>
              /\ i = 3
              /\ steps[Len(steps)] = "install_kamodo_ccmc" \/ Len(steps) = 4
              /\ git_executable = "/usr/bin/git"
              /\ attempts[i] = <<"/usr/bin/git", "clone",
                                 "https://github.com/nasa/Kamodo.git", "Kamodo">>
              /\ dirAtLaunch # "absent" => removed
    /\ \A i \in 1..Len(attempts) :
          IsRegistryInstall(attempts[i]) =>
              /\ i = 4
              /\ attempts[i] = <<"conda", "run", "-n", env_name, "pip", "install", "Kamodo">>
              /\ Len(calls) >= 3
              /\ IsClone(calls[3])
              /\ Logged(Info("Repository cloned successfully.", <<>>))
              /\ cloneDir = "new"
    /\ (Len(results) >= 3 /\ results[3].cause = "CalledProcessError" /\ Len(calls) = 3) =>
          /\ pc = "Aborted"
          /\ exit = <<1>>
          /\ Len(attempts) = 3
          /\ ~Logged(Info("Installing Kamodo...", <<>>))
    /\ (Len(results) >= 3 /\ ~Failed(3)) =>
          /\ IsClone(calls[3])
          /\ IsRegistryInstall(calls[4])

C18_Witness ==
    /\ dirAtLaunch = "old"
    /\ removed
    /\ Len(results) = 3
    /\ ~Failed(3)
    /\ IsClone(calls[3])
    /\ IsRegistryInstall(calls[4])

IsKernelSupportInstall(cmd) == cmd[1] = "mamba" /\ cmd[2] = "install" /\ cmd[5] = "ipykernel"
IsKernelRegistration(cmd) == Len(cmd) >= 8 /\ cmd[5] = "python" /\ cmd[8] = "install"
KernelSupportFailed ==
    /\ Len(results) >= 4
    /\ Failed(4)
    /\ Len(calls) = 4 \/ (Len(calls) = 5 /\ results[4].cause = "CalledProcessError")

\* C19: inside RegisterKernel the registration command is attempted only when
\* the install of the kernel-support package was started, has ended and no
\* failure was recorded, and it is the command after that install; when the
\* install could not be started or ended with a non-zero status the run is
\* Aborted with exit status 1 and no registration was attempted; and the
\* success record of the step is in the log only when both commands were
\* started and the step ended without a failure.
C19_RegisterAfterKernelSupport ==
    /\ [][(Len(attempts') = Len(attempts) + 1
             /\ IsKernelRegistration(attempts'[Len(attempts')])) =>
            /\ Len(attempts) = 5
            /\ Len(calls) = 5
            /\ IsKernelSupportInstall(calls[5])
            /\ proc = <<>>
            /\ Len(results) = 3
            /\ ~FailureSeen]_vars
    /\ [](KernelSupportFailed =>
            /\ pc = "Aborted"
            /\ exit = <<1>>
            /\ Len(attempts) = 5
            /\ \A i \in 1..Len(attempts) : ~IsKernelRegistration(attempts[i]))
    /\ [](Logged(Info("Jupyter kernel for environment %s installed successfully.",
                      <<env_name>>)) =>
            /\ Len(calls) = 6
            /\ IsKernelSupportInstall(calls[5])
            /\ IsKernelRegistration(calls[6])
            /\ Len(results) = 4
            /\ ~Failed(4))

C19_Witness ==
    /\ Len(results) = 4
    /\ ~Failed(4)
    /\ Len(calls) = 6
    /\ IsKernelRegistration(calls[6])
    /\ Logged(Info("Jupyter kernel for environment %s installed successfully.",
                   <<env_name>>))

C19_WitnessFailure ==
    /\ KernelSupportFailed
    /\ Len(calls) = 5
    /\ pc = "Aborted"

\* The clone command was started and ended with a non-zero status.
CloneFailed ==
    /\ Len(results) >= 3
    /\ results[3].cause = "CalledProcessError"
    /\ Len(calls) = 3

\* C20: when the clone directory existed at the start of a run, git is
\* resolvable and the clone command ends with a non-zero status, the run is
\* Aborted with exit status 1, the directory was deleted and what it held is
\* not put back, steps 1 and 2 have succeeded and no command of the run
\* removes the environment they made.
C20_DeletionNotUndone ==
    (dirAtLaunch # "absent" /\ "git" \in path /\ CloneFailed) =>
        /\ pc = "Aborted"
        /\ exit = <<1>>
        /\ removed
        /\ dirAtLaunch = "old" => cloneDir # "old"
        /\ ~Failed(1) /\ ~Failed(2)
        /\ Len(attempts) = 3
        /\ \A i \in 1..Len(attempts) :
              ~(attempts[i][1] = "conda" /\ attempts[i][2] = "env")

C20_Witness ==
    /\ dirAtLaunch = "old"
    /\ "git" \in path
    /\ CloneFailed
    /\ pc = "Aborted"
    /\ cloneDir = "absent"
    /\ calls[1][2] = "create"

====
